---- MODULE Spec2Model ----
(***************************************************************************)
(* One /compress request of the file-compressor API, in its two revisions: *)
(* api/index.py ("index") and api.py ("api").  The state is the request's  *)
(* temp directory (a map from file names to file contents), the locals of  *)
(* the route and of the strategy that runs, and the response.  Codec calls *)
(* (PyPDF2, pdf2image, img2pdf, PIL, zipfile) are opaque: each either      *)
(* raises or produces a file of some size.                                 *)
(***************************************************************************)
EXTENDS Integers, Sequences, FiniteSets, TLC

VARIABLES variant, filename, level, target_size, upload, tmp, fs, pc,
          output_path, quality, current_size, iters, compressed_size,
          rasterCalls, pdfTrace, directOut, rasterOut, failed, minProduced,
          response, rasterParams,
          content, compressed_content, recompressed,
          img_size, resized_size, imgParams,
          reqs, disk

\* the text of a .txt upload, what compress_text writes for it, and what it
\* writes when that output is uploaded again
textVars == <<content, compressed_content, recompressed>>
\* img.size before and after the resize of the image first pass
dimVars == <<img_size, resized_size, imgParams>>
\* two requests in flight at once: their local variables, and the temp
\* directories they share a disk with
concVars == <<reqs, disk>>
auxVars == <<textVars, dimVars, concVars>>

vars == <<variant, filename, level, target_size, upload, tmp, fs, pc,
          output_path, quality, current_size, iters, compressed_size,
          rasterCalls, pdfTrace, directOut, rasterOut, failed, minProduced,
          response, rasterParams, auxVars>>

-----------------------------------------------------------------------------
(* Bounds *)

\* sizes are multiples of UnitBytes, 0 .. MaxSizeUnits
MaxSizeUnits == 8
\* the upload's size is 0 .. MaxOrigUnits units
MaxOrigUnits == 2
\* target_size (MB) ranges over -1 .. MaxTarget
MaxTarget == 1
\* pages a rasterized PDF may have
MaxPages == 2
\* a page JPEG is 0 .. MaxPageUnits units
MaxPageUnits == 1

\* half a megabyte
UnitBytes == (1024 * 1024) \div 2

Sizes == {k * UnitBytes : k \in 0..MaxSizeUnits}
OrigSizes == {k * UnitBytes : k \in 0..MaxOrigUnits}
PageSizes == {k * UnitBytes : k \in 0..MaxPageUnits}
Targets == (0 - 1)..MaxTarget

Variants == {"index", "api"}
Levels == {"extreme", "high", "normal", "other"}

\* sanitized upload names, as <<stem, suffix>>
Names == { <<"a", ".pdf">>, <<"A", ".PDF">>, <<"compressed", ".pdf">>,
           <<"compressed_via_images", ".pdf">>,
           <<"compressed_fallback", ".pdf">>,
           <<"a", ".jpg">>, <<"compressed", ".jpg">>, <<"a", ".jpeg">>,
           <<"a", ".png">>, <<"compressed", ".png">>, <<"a", ".gif">>,
           <<"a", ".docx">>, <<"a", ".txt">>, <<"compressed", ".txt">>,
           <<"compressed", ".zip">>, <<"a", "">> }

-----------------------------------------------------------------------------
(* File contents and the temp directory *)

Content(t, s) == [tag |-> t, size |-> s]
NoContent == Content("none", 0)
\* a file opened for writing whose write then raised
Partial == Content("partial", 0)
NoPath == <<"", "">>
NoResponse == [status |-> 0, body |-> NoContent]
EmptyDir == [p \in {} |-> NoContent]
\* convert_from_path not called yet
NoParams == [dpi |-> 0, quality |-> 0, max_width |-> 0]
\* no text is being compressed
NoText == content = <<>> /\ compressed_content = <<>> /\ recompressed = <<>>
\* no image is being resized
\* the image strategy has not set its quality and max dimension yet
NoImgParams == [quality |-> 0, max_dimension |-> 0]
NoImage == img_size = <<0, 0>> /\ resized_size = <<0, 0>> /\ imgParams = NoImgParams
\* no second request is in flight
NoConc == reqs = <<>> /\ disk = <<>>

Exists(f, p) == p \in DOMAIN f
\* os.path.getsize
GetSize(f, p) == f[p].size
\* open(p, 'wb') + write, Image.save, ZipFile(p, 'w')
WriteFile(f, p, c) == [q \in (DOMAIN f) \cup {p} |-> IF q = p THEN c ELSE f[q]]
\* os.remove
RemoveFile(f, p) == [q \in (DOMAIN f) \ {p} |-> f[q]]
\* shutil.copy2 raises SameFileError when source and destination are one file
CopyRaises(f, src, dst) == src = dst \/ ~Exists(f, src)
Copy2(f, src, dst) == WriteFile(f, dst, f[src])
\* shutil.move is os.rename: a no-op when both names are one file
Move(f, src, dst) == IF src = dst THEN f ELSE RemoveFile(WriteFile(f, dst, f[src]), src)

Max(a, b) == IF a >= b THEN a ELSE b

\* Path(...).suffix.lower()
LowerExt(e) ==
    CASE e = ".PDF" -> ".pdf"
      [] OTHER -> e

file_ext == LowerExt(filename[2])
input_path == filename
target_bytes == target_size * 1024 * 1024

-----------------------------------------------------------------------------
(* Type dispatch *)

ImageExtsIndex == {".jpg", ".jpeg", ".png", ".gif", ".bmp", ".webp"}
DocExtsIndex == {".doc", ".docx", ".xls", ".xlsx", ".ppt", ".pptx"}
ImageExtsApi == {".jpg", ".jpeg", ".png"}
DocExtsApi == {".doc", ".docx"}
supported_extensions == {".pdf", ".jpg", ".jpeg", ".png", ".doc", ".docx", ".txt"}

is_supported_file(e) == e \in supported_extensions

ClassifyIndex(e) ==
    IF e = ".pdf" THEN "pdf"
    ELSE IF e \in ImageExtsIndex THEN "image"
    ELSE IF e \in DocExtsIndex THEN "document"
    ELSE "generic"

compress_based_on_type(e) ==
    IF e = ".pdf" THEN "pdf"
    ELSE IF e \in ImageExtsApi THEN "image"
    ELSE IF e \in DocExtsApi THEN "document"
    ELSE "text"

Strategy == IF variant = "index" THEN ClassifyIndex(file_ext)
            ELSE compress_based_on_type(file_ext)

-----------------------------------------------------------------------------
(* The request *)

Init ==
    /\ variant \in Variants
    /\ filename \in Names
    /\ level \in Levels
    /\ target_size \in Targets
    /\ upload \in {Content("upload", s) : s \in OrigSizes}
    /\ tmp = FALSE
    /\ fs = EmptyDir
    /\ pc = "start"
    /\ output_path = NoPath
    /\ quality = 0
    /\ current_size = 0
    /\ iters = 0
    /\ compressed_size = 0
    /\ rasterCalls = 0
    /\ pdfTrace = <<>>
    /\ directOut = NoContent
    /\ rasterOut = NoContent
    /\ failed = {}
    /\ minProduced = 0 - 1
    /\ response = NoResponse
    /\ rasterParams = NoParams
    /\ NoText
    /\ NoImage
    /\ NoConc

\* the exits of the route before tempfile.TemporaryDirectory(): no file part,
\* an empty file name, a target_size that int() cannot read (answered by the
\* route's except), and in api.py an unsupported extension or a file over
\* 50 MB
RejectReasons == {"no_file", "no_name", "bad_target", "unsupported", "too_large"}

Reject ==
    /\ pc = "start"
    /\ \E why \in RejectReasons :
         /\ why = "unsupported" => (variant = "api" /\ ~is_supported_file(file_ext))
         /\ why = "too_large" => variant = "api"
         /\ response' = [status |-> IF why = "bad_target" THEN 500 ELSE 400,
                         body |-> NoContent]
    /\ pc' = "done"
    /\ UNCHANGED <<rasterParams, auxVars>>
    /\ UNCHANGED <<variant, filename, level, target_size, upload, tmp, fs,
                   output_path, quality, current_size, iters, compressed_size,
                   rasterCalls, pdfTrace, directOut, rasterOut, failed, minProduced>>

\* with tempfile.TemporaryDirectory(): file.save(input_path)
SaveUpload ==
    /\ pc = "start"
    /\ variant = "api" => is_supported_file(file_ext)
    /\ tmp' = TRUE
    /\ fs' = WriteFile(EmptyDir, input_path, upload)
    /\ pc' = "saved"
    /\ UNCHANGED <<rasterParams, auxVars>>
    /\ UNCHANGED <<variant, filename, level, target_size, upload,
                   output_path, quality, current_size, iters, compressed_size,
                   rasterCalls, pdfTrace, directOut, rasterOut, failed, minProduced,
                   response>>

\* the strategy returned output_path: getsize, ratio, send_file, then the
\* with block releases the temp directory
RouteRespond ==
    /\ pc = "returned"
    /\ IF Exists(fs, output_path) /\ upload.size # 0
       THEN response' = [status |-> 200, body |-> fs[output_path]]
       ELSE response' = [status |-> 500, body |-> NoContent]
    /\ tmp' = FALSE
    /\ fs' = EmptyDir
    /\ pc' = "done"
    /\ UNCHANGED <<rasterParams, auxVars>>
    /\ UNCHANGED <<variant, filename, level, target_size, upload,
                   output_path, quality, current_size, iters, compressed_size,
                   rasterCalls, pdfTrace, directOut, rasterOut, failed, minProduced>>

\* the route's except without the with block: the temp directory stays
RouteExcept_NoRelease ==
    /\ pc = "raised"
    /\ response' = [status |-> 500, body |-> NoContent]
    /\ pc' = "done"
    /\ UNCHANGED <<rasterParams, auxVars>>
    /\ UNCHANGED <<variant, filename, level, target_size, upload, tmp, fs,
                   output_path, quality, current_size, iters, compressed_size,
                   rasterCalls, pdfTrace, directOut, rasterOut, failed, minProduced>>

\* an exception left the strategy: the with block releases the temp
\* directory and the route's except answers 500
RouteExcept ==
    /\ pc = "raised"
    /\ response' = [status |-> 500, body |-> NoContent]
    /\ tmp' = FALSE
    /\ fs' = EmptyDir
    /\ pc' = "done"
    /\ UNCHANGED <<rasterParams, auxVars>>
    /\ UNCHANGED <<variant, filename, level, target_size, upload,
                   output_path, quality, current_size, iters, compressed_size,
                   rasterCalls, pdfTrace, directOut, rasterOut, failed, minProduced>>

-----------------------------------------------------------------------------
(* PDF strategy *)

\* the test without its target_size_mb > 0 conjunct
NeedsRaster_NoTargetTest(t, size) == size > t * 1024 * 1024

\* the test both revisions make after the Direct pass
NeedsRaster(t, size) == t > 0 /\ size > t * 1024 * 1024

DirectPath == <<"compressed", ".pdf">>
RasterPath == <<"compressed_via_images", ".pdf">>
FallbackPath == <<"compressed_fallback", ".pdf">>
PagePath(i) == <<"page_" \o ToString(i), ".jpg">>

\* the page JPEGs 0 .. n-1 saved into the temp directory
RECURSIVE WritePages(_, _, _)
WritePages(f, n, ps) ==
    IF n = 0 THEN f
    ELSE WritePages(WriteFile(f, PagePath(n - 1), Content("page", ps[n - 1])), n - 1, ps)

RasterOutcomes == {"import_error", "rasterize_raises", "encode_raises",
                   "assemble_raises", "ok"}

\* the temp directory after the raster pass ended with outcome o:
\* n pages of sizes ps were encoded, the assembled PDF has size s
RasterFiles(f, o, n, ps, s) ==
    CASE o = "ok" -> WriteFile(WritePages(f, n, ps), RasterPath, Content("raster", s))
      [] o = "assemble_raises" -> WriteFile(WritePages(f, n, ps), RasterPath, Partial)
      [] o = "encode_raises" -> WritePages(f, n - 1, ps)
      [] OTHER -> f

\* api/index.py lines 147-149, 159, 166
IdxRasterDpi(l) == IF l = "extreme" THEN 50 ELSE 72
IdxRasterQuality_SpecTable(l) ==
    CASE l = "extreme" -> 20
      [] l = "high" -> 40
      [] OTHER -> 60
IdxRasterQuality(l) == IF l = "extreme" THEN 20 ELSE 40
IdxRasterMaxWidth(l) == IF l = "extreme" THEN 800 ELSE 1200
\* api.py lines 228, 238; the pages are not resized (max_width 0: no bound)
ApiRasterDpi(l) == IF l = "extreme" THEN 72 ELSE 96
ApiRasterQuality(l) == IF l = "extreme" THEN 30 ELSE 50

\* what the raster pass has passed to the rasterizer and to the page encoder
\* when it ended with outcome o
RasterParamsAfter(o, old, dpi, q, mw) ==
    CASE o = "import_error" -> old
      [] o = "rasterize_raises" -> [dpi |-> dpi, quality |-> 0, max_width |-> 0]
      [] OTHER -> [dpi |-> dpi, quality |-> q, max_width |-> mw]

\* index: which of the two outputs compress_pdf_extreme returns
RasterWins(final_size, direct_size) == final_size < direct_size

\* compress_pdf_extreme, through the Direct pass and the size test
IdxPdfDirect ==
    /\ pc = "saved"
    /\ variant = "index"
    /\ Strategy = "pdf"
    /\ output_path' = DirectPath
    /\ \E o \in {"import_error", "read_raises", "write_raises", "ok"}, s \in Sizes :
         /\ o \in {"write_raises", "ok"} => upload.size > 0
         /\ CASE o = "ok" ->
                  /\ fs' = WriteFile(fs, DirectPath, Content("direct", s))
                  /\ directOut' = Content("direct", s)
                  /\ compressed_size' = s
                  /\ failed' = failed
                  /\ pdfTrace' = <<"Direct">>
                  /\ pc' = IF NeedsRaster(target_size, s) THEN "pdf_raster" ELSE "returned"
              [] o = "import_error" ->
                  \* PyPDF2 is missing: shutil.copy2 stands in for the pass
                  \* (SameFileError there reaches the outer except, whose
                  \* copy2 raises it again)
                  /\ directOut' = directOut
                  /\ failed' = failed
                  /\ IF CopyRaises(fs, input_path, DirectPath)
                     THEN /\ fs' = fs
                          /\ compressed_size' = compressed_size
                          /\ pdfTrace' = <<"Direct", "Fallback">>
                          /\ pc' = "raised"
                     ELSE /\ fs' = Copy2(fs, input_path, DirectPath)
                          /\ compressed_size' = upload.size
                          /\ pdfTrace' = <<"Direct">>
                          /\ pc' = IF NeedsRaster(target_size, upload.size)
                                   THEN "pdf_raster" ELSE "returned"
              [] OTHER ->
                  \* the reader or the writer raised: the outer except copies
                  \* the input onto output_path
                  LET f1 == IF o = "write_raises"
                            THEN WriteFile(fs, DirectPath, Partial) ELSE fs
                  IN /\ directOut' = directOut
                     /\ compressed_size' = compressed_size
                     /\ failed' = failed \cup {"direct"}
                     /\ pdfTrace' = <<"Direct", "Fallback">>
                     /\ IF CopyRaises(f1, input_path, DirectPath)
                        THEN fs' = f1 /\ pc' = "raised"
                        ELSE fs' = Copy2(f1, input_path, DirectPath) /\ pc' = "returned"
    /\ UNCHANGED <<rasterParams, auxVars>>
    /\ UNCHANGED <<variant, filename, level, target_size, upload, tmp,
                   quality, current_size, iters, rasterCalls, rasterOut,
                   minProduced, response>>

\* compress_pdf_extreme, the raster pass (lines 139-190)
IdxPdfRaster ==
    /\ pc = "pdf_raster"
    /\ variant = "index"
    /\ \E o \in RasterOutcomes, n \in 1..MaxPages, s \in Sizes :
       \E ps \in [0..(n - 1) -> PageSizes] :
         /\ fs' = RasterFiles(fs, o, n, ps, s)
         /\ rasterCalls' = IF o = "import_error" THEN rasterCalls ELSE rasterCalls + 1
         /\ rasterParams' = RasterParamsAfter(o, rasterParams, IdxRasterDpi(level),
                                              IdxRasterQuality(level), IdxRasterMaxWidth(level))
         /\ IF o = "ok"
            THEN /\ rasterOut' = Content("raster", s)
                 /\ failed' = failed
                 /\ output_path' = IF RasterWins(s, compressed_size)
                                   THEN RasterPath ELSE output_path
            ELSE \* the inner except only logs: the Direct output is returned
                 /\ rasterOut' = rasterOut
                 /\ failed' = failed \cup {"raster"}
                 /\ output_path' = output_path
    /\ pdfTrace' = Append(pdfTrace, "RasterFallback")
    /\ pc' = "returned"
    /\ UNCHANGED auxVars
    /\ UNCHANGED <<variant, filename, level, target_size, upload, tmp,
                   quality, current_size, iters, compressed_size, directOut,
                   minProduced, response>>

\* compress_pdf, through the Direct pass and the size test
ApiPdfDirect ==
    /\ pc = "saved"
    /\ variant = "api"
    /\ Strategy = "pdf"
    /\ \E o \in {"read_raises", "write_raises", "ok"}, s \in Sizes :
         /\ o \in {"write_raises", "ok"} => upload.size > 0
         /\ IF o = "ok"
            THEN /\ fs' = WriteFile(fs, DirectPath, Content("direct", s))
                 /\ directOut' = Content("direct", s)
                 /\ compressed_size' = s
                 /\ failed' = failed
                 /\ output_path' = DirectPath
                 /\ pc' = IF NeedsRaster(target_size, s) THEN "pdf_raster" ELSE "returned"
            ELSE \* the except calls compress_pdf_via_images
                 /\ fs' = IF o = "write_raises"
                          THEN WriteFile(fs, DirectPath, Partial) ELSE fs
                 /\ directOut' = directOut
                 /\ compressed_size' = compressed_size
                 /\ failed' = failed \cup {"direct"}
                 /\ output_path' = DirectPath
                 /\ pc' = "pdf_raster"
    /\ pdfTrace' = <<"Direct">>
    /\ UNCHANGED <<rasterParams, auxVars>>
    /\ UNCHANGED <<variant, filename, level, target_size, upload, tmp,
                   quality, current_size, iters, rasterCalls, rasterOut,
                   minProduced, response>>

\* compress_pdf_via_images
ApiPdfRaster ==
    /\ pc = "pdf_raster"
    /\ variant = "api"
    /\ \E o \in RasterOutcomes, n \in 1..MaxPages, s \in Sizes :
       \E ps \in [0..(n - 1) -> PageSizes] :
         LET f1 == RasterFiles(fs, o, n, ps, s)
         IN /\ rasterCalls' = IF o = "import_error" THEN rasterCalls ELSE rasterCalls + 1
            /\ rasterParams' = RasterParamsAfter(o, rasterParams, ApiRasterDpi(level),
                                                 ApiRasterQuality(level), 0)
            /\ IF o = "ok"
               THEN /\ fs' = f1
                    /\ rasterOut' = Content("raster", s)
                    /\ failed' = failed
                    /\ output_path' = RasterPath
                    /\ pdfTrace' = Append(pdfTrace, "RasterFallback")
                    /\ pc' = "returned"
               ELSE \* the except copies the input to compressed_fallback.pdf
                    /\ rasterOut' = rasterOut
                    /\ failed' = failed \cup {"raster"}
                    /\ pdfTrace' = pdfTrace \o <<"RasterFallback", "Fallback">>
                    /\ IF CopyRaises(f1, input_path, FallbackPath)
                       THEN /\ fs' = f1
                            /\ output_path' = output_path
                            /\ pc' = "raised"
                       ELSE /\ fs' = Copy2(f1, input_path, FallbackPath)
                            /\ output_path' = FallbackPath
                            /\ pc' = "returned"
    /\ UNCHANGED auxVars
    /\ UNCHANGED <<variant, filename, level, target_size, upload, tmp,
                   quality, current_size, iters, compressed_size, directOut,
                   minProduced, response>>

-----------------------------------------------------------------------------
(* Image strategy and the size-convergence loop *)

\* the qualities of get_quality_by_level in index.py too
IdxQuality_ApiTable(l) ==
    CASE l = "extreme" -> 40
      [] l = "high" -> 60
      [] OTHER -> 80

\* api/index.py lines 210-221
IdxQuality(l) ==
    CASE l = "extreme" -> 15
      [] l = "high" -> 40
      [] OTHER -> 60

get_quality_by_level(l) ==
    CASE l = "extreme" -> 40
      [] l = "high" -> 60
      [] l = "normal" -> 80
      [] OTHER -> 60

\* the step halved: quality = max(5, quality - 5)
IdxQualityNext_SmallStep(q) == Max(5, q - 5)

\* min written for max: quality = min(5, quality - 10)
IdxQualityNext_Min(q) == IF q - 10 <= 5 THEN q - 10 ELSE 5

\* quality = max(5, quality - 10)
IdxQualityNext(q) == Max(5, q - 10)
\* quality = max(10, quality - 15)
ApiQualityNext(q) == Max(10, q - 15)
\* >= written for >: while current_size >= target_bytes and quality > 10
IdxLoopCond_AtTarget(size, t, q) == size >= t * 1024 * 1024 /\ q > 10

\* while current_size > target_bytes and quality > 10
IdxLoopCond(size, t, q) == size > t * 1024 * 1024 /\ q > 10
max_iterations == 5
\* if current_size <= target_bytes or quality <= 20
ApiAccept(size, tb, q) == size <= tb \/ q <= 20
\* if new_size < current_size
IdxImproves(new_size, cur) == new_size < cur

\* path.replace('.jpg', infix + str(q) + '.jpg'): the only '.jpg' a path
\* tmp_dir/compressed<ext> can hold is its suffix
ReplaceJpg(path, infix, q) ==
    IF path[2] = ".jpg" THEN <<path[1] \o infix \o ToString(q), ".jpg">> ELSE path

\* output_path.replace(file_ext, '.jpg') after the conversion to RGB
IdxOutputPath(e, alpha) == IF alpha THEN <<"compressed", ".jpg">> ELSE <<"compressed", e>>

\* api.py lines 293-301
ApiOutputPath(e) == IF e \in {".jpg", ".jpeg", ".png"} THEN <<"compressed", e>>
                    ELSE <<"compressed", ".jpg">>

MinSize(m, s) == IF m < 0 \/ s < m THEN s ELSE m

ImgOutcomes == {"open_raises", "save_raises", "save_raises_partial", "ok"}

\* the except of the image strategy: shutil.copy2(file_path, output_path),
\* which raises when both are one file; gives <<fs, pc>>
ImgExcept(f, out) ==
    IF CopyRaises(f, input_path, out) THEN <<f, "raised">>
    ELSE <<Copy2(f, input_path, out), "returned">>

\* compress_image_extreme up to the first save and the target test
IdxImgFirstPass ==
    /\ pc = "saved"
    /\ variant = "index"
    /\ Strategy = "image"
    /\ quality' = IdxQuality(level)
    /\ iters' = 0
    /\ \E o \in ImgOutcomes, alpha \in BOOLEAN, s \in Sizes :
         /\ o # "open_raises" => upload.size > 0
         /\ LET out == IF o = "open_raises" THEN <<"compressed", file_ext>>
                       ELSE IdxOutputPath(file_ext, alpha)
            IN /\ output_path' = out
               /\ IF o = "ok"
                  THEN /\ fs' = WriteFile(fs, out, Content("img", s))
                       /\ current_size' = IF target_size > 0 THEN s ELSE current_size
                       /\ minProduced' = s
                       /\ failed' = failed
                       /\ pc' = IF target_size > 0 THEN "img_loop" ELSE "returned"
                  ELSE LET f1 == IF o = "save_raises_partial"
                                 THEN WriteFile(fs, out, Partial) ELSE fs
                           r == ImgExcept(f1, out)
                       IN /\ fs' = r[1]
                          /\ pc' = r[2]
                          /\ current_size' = current_size
                          /\ minProduced' = minProduced
                          /\ failed' = failed \cup {"image"}
    /\ UNCHANGED <<rasterParams, auxVars>>
    /\ UNCHANGED <<variant, filename, level, target_size, upload, tmp,
                   compressed_size, rasterCalls, pdfTrace, directOut, rasterOut,
                   response>>

\* one pass through the body of the while loop of compress_image_extreme
IdxImgIter ==
    /\ pc = "img_loop"
    /\ variant = "index"
    /\ IdxLoopCond(current_size, target_size, quality)
    /\ iters' = iters + 1
    /\ quality' = IdxQualityNext(quality)
    /\ \E o \in ImgOutcomes, s \in Sizes :
         LET temp_output == ReplaceJpg(output_path, "_q", IdxQualityNext(quality))
         IN IF o = "ok"
            THEN LET f1 == WriteFile(fs, temp_output, Content("img", s))
                     new_size == GetSize(f1, temp_output)
                 IN /\ minProduced' = MinSize(minProduced, s)
                    /\ failed' = failed
                    /\ IF IdxImproves(new_size, current_size)
                       THEN /\ fs' = Move(f1, temp_output, output_path)
                            /\ current_size' = new_size
                            /\ pc' = "img_loop"
                       ELSE /\ fs' = RemoveFile(f1, temp_output)
                            /\ current_size' = current_size
                            /\ pc' = "returned"
            ELSE LET f1 == IF o = "save_raises_partial"
                           THEN WriteFile(fs, temp_output, Partial) ELSE fs
                     r == ImgExcept(f1, output_path)
                 IN /\ fs' = r[1]
                    /\ pc' = r[2]
                    /\ current_size' = current_size
                    /\ minProduced' = minProduced
                    /\ failed' = failed \cup {"image"}
    /\ UNCHANGED <<rasterParams, auxVars>>
    /\ UNCHANGED <<variant, filename, level, target_size, upload, tmp,
                   output_path, compressed_size, rasterCalls, pdfTrace,
                   directOut, rasterOut, response>>

\* the while condition is false: return output_path
IdxImgExit ==
    /\ pc = "img_loop"
    /\ variant = "index"
    /\ ~IdxLoopCond(current_size, target_size, quality)
    /\ pc' = "returned"
    /\ UNCHANGED <<rasterParams, auxVars>>
    /\ UNCHANGED <<variant, filename, level, target_size, upload, tmp, fs,
                   output_path, quality, current_size, iters, compressed_size,
                   rasterCalls, pdfTrace, directOut, rasterOut, failed,
                   minProduced, response>>

\* compress_image up to the first save and the target test
ApiImgFirstPass ==
    /\ pc = "saved"
    /\ variant = "api"
    /\ Strategy = "image"
    /\ quality' = get_quality_by_level(level)
    /\ iters' = 0
    /\ \E o \in ImgOutcomes, s \in Sizes :
         /\ o # "open_raises" => upload.size > 0
         /\ LET out == IF o = "open_raises" THEN <<"compressed", file_ext>>
                       ELSE ApiOutputPath(file_ext)
            IN /\ output_path' = out
               /\ IF o = "ok"
                  THEN /\ fs' = WriteFile(fs, out, Content("img", s))
                       /\ current_size' = IF target_size > 0 THEN s ELSE current_size
                       /\ minProduced' = s
                       /\ failed' = failed
                       /\ pc' = IF target_size > 0 /\ s > target_bytes
                                THEN "img_loop" ELSE "returned"
                  ELSE LET f1 == IF o = "save_raises_partial"
                                 THEN WriteFile(fs, out, Partial) ELSE fs
                           r == ImgExcept(f1, out)
                       IN /\ fs' = r[1]
                          /\ pc' = r[2]
                          /\ current_size' = current_size
                          /\ minProduced' = minProduced
                          /\ failed' = failed \cup {"image"}
    /\ UNCHANGED <<rasterParams, auxVars>>
    /\ UNCHANGED <<variant, filename, level, target_size, upload, tmp,
                   compressed_size, rasterCalls, pdfTrace, directOut, rasterOut,
                   response>>

\* one pass through the body of the for loop of compress_image_to_target;
\* the loop is left by the return inside it or when range(max_iterations)
\* is used up
ApiImgIter ==
    /\ pc = "img_loop"
    /\ variant = "api"
    /\ iters < max_iterations
    /\ iters' = iters + 1
    /\ \E o \in ImgOutcomes, s \in Sizes :
         LET q == ApiQualityNext(quality)
             temp_path == ReplaceJpg(output_path, "_temp_q", q)
         IN IF o = "open_raises"
            THEN LET r == ImgExcept(fs, output_path)
                 IN /\ fs' = r[1]
                    /\ pc' = r[2]
                    /\ quality' = quality
                    /\ current_size' = current_size
                    /\ minProduced' = minProduced
                    /\ failed' = failed \cup {"image"}
            ELSE IF o = "ok"
            THEN LET f1 == WriteFile(fs, temp_path, Content("img", s))
                 IN /\ quality' = q
                    /\ current_size' = GetSize(f1, temp_path)
                    /\ minProduced' = MinSize(minProduced, s)
                    /\ failed' = failed
                    /\ IF ApiAccept(s, target_bytes, q)
                       THEN /\ fs' = Move(f1, temp_path, output_path)
                            /\ pc' = "returned"
                       ELSE /\ fs' = f1
                            /\ pc' = IF iters + 1 >= max_iterations
                                     THEN "returned" ELSE "img_loop"
            ELSE LET f1 == IF o = "save_raises_partial"
                           THEN WriteFile(fs, temp_path, Partial) ELSE fs
                     r == ImgExcept(f1, output_path)
                 IN /\ fs' = r[1]
                    /\ pc' = r[2]
                    /\ quality' = q
                    /\ current_size' = current_size
                    /\ minProduced' = minProduced
                    /\ failed' = failed \cup {"image"}
    /\ UNCHANGED <<rasterParams, auxVars>>
    /\ UNCHANGED <<variant, filename, level, target_size, upload, tmp,
                   output_path, compressed_size, rasterCalls, pdfTrace,
                   directOut, rasterOut, response>>

-----------------------------------------------------------------------------
(* Document, generic and text strategies *)

ZipOutcomes == {"raises", "raises_partial", "ok"}

\* zipfile.ZipFile(output_path, 'w') ... zipf.write(file_path): no try
\* around it, so what it raises leaves the strategy
ZipStep(out) ==
    /\ output_path' = out
    /\ \E o \in ZipOutcomes, s \in Sizes :
         IF o = "ok"
         THEN /\ fs' = WriteFile(fs, out, Content("zip", s))
              /\ failed' = failed
              /\ pc' = "returned"
         ELSE /\ fs' = IF o = "raises_partial" THEN WriteFile(fs, out, Partial) ELSE fs
              /\ failed' = failed \cup {"zip"}
              /\ pc' = "raised"
    /\ UNCHANGED <<rasterParams, auxVars>>
    /\ UNCHANGED <<variant, filename, level, target_size, upload, tmp,
                   quality, current_size, iters, compressed_size, rasterCalls,
                   pdfTrace, directOut, rasterOut, minProduced, response>>

compress_document_extreme ==
    /\ pc = "saved"
    /\ variant = "index"
    /\ Strategy = "document"
    /\ ZipStep(<<"compressed", ".zip">>)

compress_generic_extreme ==
    /\ pc = "saved"
    /\ variant = "index"
    /\ Strategy = "generic"
    /\ ZipStep(<<"compressed", ".zip">>)

compress_document ==
    /\ pc = "saved"
    /\ variant = "api"
    /\ Strategy = "document"
    /\ ZipStep(<<"compressed" \o file_ext, ".zip">>)

TextPath == <<"compressed", ".txt">>

\* removing whitespace and blank lines never adds bytes
TextSizes(orig) == {s \in OrigSizes : s <= orig}

compress_text ==
    /\ pc = "saved"
    /\ variant = "api"
    /\ Strategy = "text"
    /\ output_path' = TextPath
    /\ \E o \in {"read_raises", "write_raises_partial", "ok"}, s \in TextSizes(upload.size) :
         IF o = "ok"
         THEN /\ fs' = WriteFile(fs, TextPath, Content("text", s))
              /\ failed' = failed
              /\ pc' = "returned"
         ELSE LET f1 == IF o = "write_raises_partial"
                        THEN WriteFile(fs, TextPath, Partial) ELSE fs
              IN /\ failed' = failed \cup {"text"}
                 /\ IF CopyRaises(f1, input_path, TextPath)
                    THEN fs' = f1 /\ pc' = "raised"
                    ELSE fs' = Copy2(f1, input_path, TextPath) /\ pc' = "returned"
    /\ UNCHANGED <<rasterParams, auxVars>>
    /\ UNCHANGED <<variant, filename, level, target_size, upload, tmp,
                   quality, current_size, iters, compressed_size, rasterCalls,
                   pdfTrace, directOut, rasterOut, minProduced, response>>

-----------------------------------------------------------------------------

Next ==
    \/ Reject
    \/ SaveUpload
    \/ IdxPdfDirect
    \/ IdxPdfRaster
    \/ ApiPdfDirect
    \/ ApiPdfRaster
    \/ IdxImgFirstPass
    \/ IdxImgIter
    \/ IdxImgExit
    \/ ApiImgFirstPass
    \/ ApiImgIter
    \/ compress_document_extreme
    \/ compress_generic_extreme
    \/ compress_document
    \/ compress_text
    \/ RouteRespond
    \/ RouteExcept

Spec == Init /\ [][Next]_vars

-----------------------------------------------------------------------------
(* Claims *)

InTrace(st) == \E i \in 1..Len(pdfTrace) : pdfTrace[i] = st
PdfEnded == Strategy = "pdf" /\ pc \in {"returned", "raised", "done"}

\* C1: both image convergence loops run at most 5 re-encode iterations and
\* then stop: the iteration count never exceeds 5, and once 5 iterations
\* have run no further iteration can start, only the return.
C1_AtMostFiveIterations ==
    /\ iters <= 5
    /\ (pc = "img_loop" /\ iters = 5) =>
          (~ENABLED IdxImgIter /\ ~ENABLED ApiImgIter /\ ENABLED IdxImgExit)

\* a loop that used all 5 iterations (index, quality 60 down to 10)
C1_Witness == pc = "img_loop" /\ iters = 5 /\ quality = 10

\* C2: across the convergence iterations of a request in which no codec
\* call fails, the size of the file at the output path never increases.
C2_HeldSizeNeverGrows ==
    [][(pc = "img_loop" /\ failed' = {} /\ Exists(fs, output_path)
            /\ Exists(fs', output_path'))
          => GetSize(fs', output_path') <= GetSize(fs, output_path)]_vars

\* C3: every convergence iteration sets quality to max(floor, quality - step)
\* (floor 5, step 10 in api/index.py; floor 10, step 15 in api.py), so the
\* quality never increases and never falls below the floor.
C3_QualityStep ==
    [][(pc = "img_loop" /\ iters' = iters + 1) =>
          LET floor == IF variant = "index" THEN 5 ELSE 10
              step == IF variant = "index" THEN 10 ELSE 15
          IN /\ quality' <= quality
             /\ quality' >= floor
             /\ failed' = failed =>
                  quality' = (IF quality - step >= floor THEN quality - step ELSE floor)
      ]_vars

\* an iteration has brought the quality down to the floor
C3_Witness ==
    /\ iters >= 1
    /\ failed = {}
    /\ \/ variant = "index" /\ quality = 5
       \/ variant = "api" /\ quality = 10

\* C4: when the Direct pass succeeded and no target is set or the Direct
\* output is within the target, the rasterizer is never called, the raster
\* state is never entered, and the Direct output is what the strategy returns
\* and what the route sends.
C4_DirectWithinTarget ==
    (/\ Strategy = "pdf"
     /\ directOut # NoContent
     /\ (target_size <= 0 \/ directOut.size <= target_size * 1048576))
      => /\ rasterCalls = 0
         /\ pc # "pdf_raster"
         /\ pc # "raised"
         /\ pc = "returned" => (output_path = DirectPath /\ fs[output_path] = directOut)
         /\ pc = "done" => response = [status |-> 200, body |-> directOut]

\* a Direct output exactly as large as a set target was returned
C4_Witness ==
    /\ Strategy = "pdf"
    /\ pc = "returned"
    /\ target_size > 0
    /\ directOut # NoContent
    /\ directOut.size = target_size * 1048576

\* C5: when the Direct pass succeeded above the target and the raster pass
\* then succeeded, the artifact returned is no larger than either output.
C5_SmallerOfBoth ==
    (/\ Strategy = "pdf"
     /\ pc = "returned"
     /\ directOut # NoContent
     /\ rasterOut # NoContent)
      => /\ Exists(fs, output_path)
         /\ GetSize(fs, output_path) <= directOut.size
         /\ GetSize(fs, output_path) <= rasterOut.size

\* C6: the path a strategy returns names an existing file when the route
\* reads its size.
C6_ReturnedPathExists == pc = "returned" => Exists(fs, output_path)

\* C7: while the request holds its temp directory the saved input file
\* exists and its bytes are the uploaded bytes.
C7_InputUntouched == tmp => (Exists(fs, input_path) /\ fs[input_path] = upload)

\* C8: a codec failure inside the Image, Text or Document strategy does not
\* leave the strategy: it returns a file byte-identical to the input.
C8_FailureGivesCopy ==
    (failed \cap {"image", "text", "zip"} # {})
      => /\ pc # "raised"
         /\ pc = "returned" => (Exists(fs, output_path) /\ fs[output_path] = upload)

\* C9: when the raster pass fails the PDF strategy returns a file
\* byte-identical to the input and raises nothing, whether or not the Direct
\* pass had succeeded.
C9_RasterFailureGivesCopy ==
    ("raster" \in failed)
      => /\ pc # "raised"
         /\ pc = "returned" => (Exists(fs, output_path) /\ fs[output_path] = upload)

\* C10: when the Direct pass raises, the raster state is entered before the
\* strategy ends, and the states come in the order Direct, RasterFallback,
\* Fallback.
C10_DirectFailureEntersRaster ==
    /\ ("direct" \in failed /\ PdfEnded) => InTrace("RasterFallback")
    /\ pdfTrace \in {<<>>, <<"Direct">>, <<"Direct", "RasterFallback">>,
                     <<"Direct", "RasterFallback", "Fallback">>}

\* C11: the artifact the image strategy returns is never larger than the
\* original upload.
C11_ImageNotLarger ==
    (Strategy = "image" /\ pc = "returned" /\ Exists(fs, output_path))
      => GetSize(fs, output_path) <= upload.size

RasterEntered == InTrace("RasterFallback")

C17_StrictImprovementOrStop ==
    [][(pc = "img_loop" /\ iters' = iters + 1 /\ failed' = failed
            /\ Exists(fs, output_path))
          => \/ /\ Exists(fs', output_path)
                /\ GetSize(fs', output_path) < GetSize(fs, output_path)
             \/ /\ Exists(fs', output_path)
                /\ fs'[output_path] = fs[output_path]
                /\ pc' # "img_loop"
      ]_vars

\* C18: the convergence loop is left (without a codec failure) only when the
\* size is within the target, or the last iteration did not improve, or the
\* quality is at the floor (5 in api/index.py, 10 in api.py), or 5 iterations
\* have run.
C18_StopsOnlyWhenAllowed ==
    [][(pc = "img_loop" /\ pc' = "returned" /\ failed' = {})
          => LET floor == IF variant = "index" THEN 5 ELSE 10
                 tb == target_size * 1048576
             IN IF iters' = iters
                THEN \* the loop test ended the loop after an improving iteration
                     current_size <= tb \/ quality = floor \/ iters = 5
                ELSE \* this iteration ended the loop
                     \/ ~Exists(fs', output_path)
                     \/ GetSize(fs', output_path) <= tb
                     \/ ~(GetSize(fs', output_path) < GetSize(fs, output_path))
                     \/ quality' = floor
                     \/ iters' = 5
      ]_vars

\* C19: with no target set, or a first-pass artifact within the target, the
\* image strategy runs no convergence iteration, writes no further file and
\* returns the first-pass artifact as it is.
C19_NoIterationWithinTarget ==
    /\ [][(Strategy = "image" /\ iters = 0 /\ iters' = 1)
             => (target_size > 0 /\ GetSize(fs, output_path) > target_size * 1048576)]_vars
    /\ [](\A p \in {"img_loop", "returned"} :
            (/\ Strategy = "image"
             /\ pc = p
             /\ failed = {}
             /\ iters = 0)
              => /\ DOMAIN fs = {input_path, output_path}
                 /\ fs[output_path] = Content("img", minProduced))

\* a first-pass artifact exactly as large as the target was returned with no
\* iteration
C19_Witness ==
    /\ Strategy = "image"
    /\ pc = "returned"
    /\ failed = {}
    /\ iters = 0
    /\ target_size > 0
    /\ Exists(fs, output_path)
    /\ fs[output_path] = Content("img", target_size * 1048576)

\* C15: the temp directory is held only while the request is between the
\* save and the response; every request ends, and ends with the directory
\* released, whether the strategy returned, fell back or raised; a request
\* rejected before the save never holds one.
C15_TempReleased ==
    /\ [](tmp => pc \in {"saved", "pdf_raster", "img_loop", "returned", "raised"})
    /\ [](pc = "done" => (~tmp /\ fs = EmptyDir))
    /\ []((pc \in {"saved", "pdf_raster", "img_loop", "returned", "raised"})
            => ENABLED Next)
    /\ [][(pc = "start" /\ pc' = "done") => (~tmp /\ ~tmp' /\ fs' = EmptyDir)]_vars

\* a request whose strategy raised to the route has ended with the temp
\* directory released
C15_Witness ==
    /\ pc = "done"
    /\ "zip" \in failed
    /\ response.status = 500
    /\ ~tmp

-----------------------------------------------------------------------------
(* compress_text on the characters of the file *)

\* longest text tried
MaxTextLen == 4

\* texts are sequences of characters; these stand for a letter, another
\* letter, a space, a tab and a line feed
Chars == {"a", "b", " ", "\t", "\n"}
Whitespace == {" ", "\t", "\n"}
Texts == UNION {[1..n -> Chars] : n \in 0..MaxTextLen}

\* str.splitlines(): the pieces between line feeds, without a last empty piece
RECURSIVE SplitLinesFrom(_, _, _, _)
SplitLinesFrom(s, i, cur, acc) ==
    IF i > Len(s) THEN (IF cur = <<>> THEN acc ELSE Append(acc, cur))
    ELSE IF s[i] = "\n" THEN SplitLinesFrom(s, i + 1, <<>>, Append(acc, cur))
    ELSE SplitLinesFrom(s, i + 1, Append(cur, s[i]), acc)
SplitLines(s) == SplitLinesFrom(s, 1, <<>>, <<>>)

\* str.split(): the maximal runs of non-whitespace characters
RECURSIVE SplitFrom(_, _, _, _)
SplitFrom(s, i, cur, acc) ==
    IF i > Len(s) THEN (IF cur = <<>> THEN acc ELSE Append(acc, cur))
    ELSE IF s[i] \in Whitespace
    THEN SplitFrom(s, i + 1, <<>>, IF cur = <<>> THEN acc ELSE Append(acc, cur))
    ELSE SplitFrom(s, i + 1, Append(cur, s[i]), acc)
Split(s) == SplitFrom(s, 1, <<>>, <<>>)

\* sep.join(parts)
RECURSIVE Join(_, _)
Join(parts, sep) ==
    IF parts = <<>> THEN <<>>
    ELSE IF Len(parts) = 1 THEN parts[1]
    ELSE parts[1] \o <<sep>> \o Join(Tail(parts), sep)

\* str.strip()
RECURSIVE LStrip(_)
LStrip(s) == IF s # <<>> /\ s[1] \in Whitespace THEN LStrip(Tail(s)) ELSE s
RECURSIVE RStrip(_)
RStrip(s) == IF s # <<>> /\ s[Len(s)] \in Whitespace
             THEN RStrip(SubSeq(s, 1, Len(s) - 1)) ELSE s
Strip(s) == LStrip(RStrip(s))

\* [f(line) for line in lines if f(line)]
RECURSIVE NonEmptyStripped(_)
NonEmptyStripped(lines) ==
    IF lines = <<>> THEN <<>>
    ELSE (IF Strip(lines[1]) # <<>> THEN <<Strip(lines[1])>> ELSE <<>>)
         \o NonEmptyStripped(Tail(lines))

\* a collapse by one line.replace('  ', ' ')
RECURSIVE CollapseLine_ReplaceOnce(_)
CollapseLine_ReplaceOnce(line) ==
    IF Len(line) >= 2 /\ line[1] = " " /\ line[2] = " "
    THEN <<" ">> \o CollapseLine_ReplaceOnce(Tail(Tail(line)))
    ELSE IF line = <<>> THEN <<>>
    ELSE <<line[1]>> \o CollapseLine_ReplaceOnce(Tail(line))

\* line = ' '.join(line.split())
CollapseLine(line) == Join(Split(line), " ")

RECURSIVE NonEmptyCollapsed(_)
NonEmptyCollapsed(lines) ==
    IF lines = <<>> THEN <<>>
    ELSE (IF CollapseLine(lines[1]) # <<>> THEN <<CollapseLine(lines[1])>> ELSE <<>>)
         \o NonEmptyCollapsed(Tail(lines))

\* api.py lines 370-383
TextTransform(l, text) ==
    IF l = "extreme"
    THEN Join(NonEmptyStripped(SplitLines(text)), " ")
    ELSE Join(NonEmptyCollapsed(SplitLines(text)), "\n")

TextInit ==
    /\ content \in Texts
    /\ level \in Levels
    /\ pc = "text_read"
    /\ compressed_content = <<>>
    /\ recompressed = <<>>
    /\ variant = "api"
    /\ filename = <<"a", ".txt">>
    /\ target_size = 1
    /\ upload = Content("upload", 0)
    /\ tmp = TRUE
    /\ fs = EmptyDir
    /\ output_path = TextPath
    /\ quality = 0
    /\ current_size = 0
    /\ iters = 0
    /\ compressed_size = 0
    /\ rasterCalls = 0
    /\ pdfTrace = <<>>
    /\ directOut = NoContent
    /\ rasterOut = NoContent
    /\ failed = {}
    /\ minProduced = 0 - 1
    /\ response = NoResponse
    /\ rasterParams = NoParams
    /\ NoImage
    /\ NoConc

textFrame == <<variant, filename, level, target_size, upload, tmp, fs,
               output_path, quality, current_size, iters, compressed_size,
               rasterCalls, pdfTrace, directOut, rasterOut, failed,
               minProduced, response, rasterParams, dimVars, concVars>>

\* compress_text reads the file, transforms it and writes compressed.txt
TextCompress ==
    /\ pc = "text_read"
    /\ compressed_content' = TextTransform(level, content)
    /\ pc' = "text_written"
    /\ UNCHANGED <<content, recompressed>>
    /\ UNCHANGED textFrame

\* a second request with the same level whose upload is that compressed.txt
TextRecompress ==
    /\ pc = "text_written"
    /\ recompressed' = TextTransform(level, compressed_content)
    /\ pc' = "text_done"
    /\ UNCHANGED <<content, compressed_content>>
    /\ UNCHANGED textFrame

TextNext == TextCompress \/ TextRecompress

SpecText == TextInit /\ [][TextNext]_vars

\* C12: at every level but extreme, compress_text applied to its own output
\* gives that output again.
C12_NormalIdempotent ==
    (pc = "text_done" /\ level # "extreme") => recompressed = compressed_content

\* a text with a run of blanks and a blank line was changed by the first
\* pass and left alone by the second
C12_Witness ==
    /\ pc = "text_done"
    /\ level = "normal"
    /\ content = <<"a", " ", " ", "\n">>
    /\ compressed_content = <<"a">>
    /\ recompressed = <<"a">>

\* the words of a text, across its lines
AllWords(text) == Split(text)
HasDoubleBlank(line) == \E i \in 1..(Len(line) - 1) :
                           line[i] \in Whitespace /\ line[i + 1] \in Whitespace
CleanLine(line) == /\ line # <<>>
                   /\ line[1] \notin Whitespace
                   /\ line[Len(line)] \notin Whitespace
                   /\ ~HasDoubleBlank(line)
                   /\ \A i \in 1..Len(line) : line[i] # "\t"

\* C13: compress_text keeps the sequence of words at every level; at extreme
\* the output is those words joined by single spaces; at the other levels it
\* has one clean line per non-blank input line; only blank lines give an
\* empty output.
C13_WordsKept ==
    (pc \in {"text_written", "text_done"}) =>
       LET out == compressed_content
           outLines == SplitLines(out)
       IN /\ AllWords(out) = AllWords(content)
          /\ level = "extreme" => out = Join(AllWords(content), " ")
          /\ level # "extreme" =>
               /\ Len(outLines) = Len(NonEmptyStripped(SplitLines(content)))
               /\ \A i \in 1..Len(outLines) : CleanLine(outLines[i])
          /\ AllWords(content) = <<>> => out = <<>>

-----------------------------------------------------------------------------
(* The resize of the image first pass, on the pixel dimensions alone *)

MaxDimUnits == 6
\* widths and heights on and just past the thresholds of both revisions
Dims == {k * 400 + d : k \in 0..MaxDimUnits, d \in {0, 1}} \ {0}

\* index.py lines 210-220
IdxMaxWidth(l) ==
    IF l = "extreme" THEN 800 ELSE IF l = "high" THEN 1200 ELSE 1600

\* api.py get_max_dimension_by_level: dimensions.get(level, 1600)
get_max_dimension_by_level(l) ==
    IF l = "extreme" THEN 1200
    ELSE IF l = "high" THEN 1600
    ELSE IF l = "normal" THEN 2000
    ELSE 1600

MaxDimension(v, l) ==
    IF v = "index" THEN IdxMaxWidth(l) ELSE get_max_dimension_by_level(l)

\* index.py lines 224-227: only the width is tested; the new height is
\* int(img.height * (max_width / img.width)), the integer part of the
\* quotient
IdxResize(sz, l) ==
    LET m == IdxMaxWidth(l)
    IN IF sz[1] > m THEN <<m, (sz[2] * m) \div sz[1]>> ELSE sz

\* api.py lines 278-285: ratio = max_dimension / max(img.size), both
\* dimensions are int(dimension * ratio)
ApiResize(sz, l) ==
    LET m == get_max_dimension_by_level(l)
        big == Max(sz[1], sz[2])
    IN IF big > m THEN <<(sz[1] * m) \div big, (sz[2] * m) \div big>> ELSE sz

\* img.resize raises ValueError for a zero width or height; the except
\* branch then copies the upload, whose dimensions are the original ones
SavedSize(orig, new) == IF new[1] = 0 \/ new[2] = 0 THEN orig ELSE new

DimInit ==
    /\ variant \in Variants
    /\ level \in Levels
    /\ img_size \in Dims \X Dims
    /\ resized_size = <<0, 0>>
    /\ imgParams = NoImgParams
    /\ pc = "dim_open"
    /\ filename = <<"a", ".jpg">>
    /\ target_size = 0
    /\ upload = Content("upload", 0)
    /\ tmp = TRUE
    /\ fs = EmptyDir
    /\ output_path = NoPath
    /\ quality = 0
    /\ current_size = 0
    /\ iters = 0
    /\ compressed_size = 0
    /\ rasterCalls = 0
    /\ pdfTrace = <<>>
    /\ directOut = NoContent
    /\ rasterOut = NoContent
    /\ failed = {}
    /\ minProduced = 0 - 1
    /\ response = NoResponse
    /\ rasterParams = NoParams
    /\ NoText
    /\ NoConc

dimFrame == <<variant, filename, level, target_size, upload, tmp, fs,
              output_path, quality, current_size, iters, compressed_size,
              rasterCalls, pdfTrace, directOut, rasterOut, failed,
              minProduced, response, rasterParams, textVars, concVars>>

\* compress_image_extreme up to its first img.save
IdxImgResize ==
    /\ pc = "dim_open"
    /\ variant = "index"
    /\ imgParams' = [quality |-> IdxQuality(level),
                     max_dimension |-> IdxMaxWidth(level)]
    /\ resized_size' = SavedSize(img_size, IdxResize(img_size, level))
    /\ pc' = "dim_saved"
    /\ UNCHANGED <<img_size, dimFrame>>

\* compress_image up to its first img.save
ApiImgResize ==
    /\ pc = "dim_open"
    /\ variant = "api"
    /\ imgParams' = [quality |-> get_quality_by_level(level),
                     max_dimension |-> get_max_dimension_by_level(level)]
    /\ resized_size' = SavedSize(img_size, ApiResize(img_size, level))
    /\ pc' = "dim_saved"
    /\ UNCHANGED <<img_size, dimFrame>>

DimNext == IdxImgResize \/ ApiImgResize

SpecDim == DimInit /\ [][DimNext]_vars

\* C14: after the image first pass the larger dimension of the output is at
\* most the level's maximum, neither dimension has grown, and an image
\* already within the maximum keeps its dimensions.
C14_DimensionsBounded ==
    pc = "dim_saved" =>
       LET m == MaxDimension(variant, level)
       IN /\ Max(resized_size[1], resized_size[2]) <= m
          /\ resized_size[1] <= img_size[1]
          /\ resized_size[2] <= img_size[2]
          /\ Max(img_size[1], img_size[2]) <= m => resized_size = img_size

-----------------------------------------------------------------------------
(* Two image requests in flight at once, sharing one disk *)

MaxRounds == 2
NumDirs == 2
Requests == {1, 2}
\* the names tempfile can give a directory
TempDirs == 1..NumDirs

\* a file on the shared disk: whose upload it was made from, and the quality
\* it was saved with (100 for the upload itself)
ConcFile(o, q) == [owner |-> o, q |-> q]
NoConcFile == ConcFile(0, 0)
\* os.path.join(tmp_dir, name)
PathJoin(d, n) == <<d, n>>
\* what an open of the path yields; a missing file leaves the request
\* without an artifact
ReadFile(f, p) == IF Exists(f, p) THEN f[p] ELSE NoConcFile
ConcInputPath(d) == PathJoin(d, <<"a", ".jpg">>)
ConcOutputPath(d) == PathJoin(d, <<"compressed", ".jpg">>)
\* output_path.replace('.jpg', f'_q{quality}.jpg') and
\* image_path.replace('.jpg', f'_temp_q{quality}.jpg')
ConcTempPath(v, d, q) ==
    PathJoin(d, ReplaceJpg(<<"compressed", ".jpg">>,
                           IF v = "index" THEN "_q" ELSE "_temp_q", q))

Live(r) == reqs[r].pc \notin {"idle", "done"}
\* the temp directories that exist
ExistingDirs == {reqs[r].tmp_dir : r \in {x \in Requests : Live(x)}}

\* a directory name taken without the test that it is new
mkdtemp_AnyName(existing) == TempDirs

\* tempfile.TemporaryDirectory(): mkdtemp makes a directory under a name no
\* existing directory has
mkdtemp(existing) == TempDirs \ existing

ConcQuality(v, l) ==
    IF v = "index" THEN IdxQuality(l) ELSE get_quality_by_level(l)
ConcQualityNext(v, q) ==
    IF v = "index" THEN IdxQualityNext(q) ELSE ApiQualityNext(q)

\* whether the loop runs once more, for an image whose sizes ask for n
\* iterations: index.py stops at quality <= 10, api.py accepts at
\* quality <= 20
ConcMore(v, q, done, n) ==
    /\ done < n
    /\ done < max_iterations
    /\ IF v = "index" THEN q > 10 ELSE ~(done >= 1 /\ q <= 20)

\* whether the iteration's file replaces the output: index.py moves every
\* smaller file, api.py the file that is within target or at quality <= 20
ConcAccepts(v, q, done, n) == v = "index" \/ done + 1 = n \/ q <= 20

\* the quality of the artifact a request returns when it runs alone
RECURSIVE FinalQuality(_, _, _, _)
FinalQuality(v, q, done, n) ==
    IF ConcMore(v, q, done, n)
    THEN FinalQuality(v, ConcQualityNext(v, q), done + 1, n)
    ELSE q

AloneArtifact(r) ==
    ConcFile(r, FinalQuality(variant, ConcQuality(variant, reqs[r].level),
                             0, reqs[r].rounds))

ConcInit ==
    /\ variant \in Variants
    /\ reqs \in [Requests -> [pc : {"idle"}, tmp_dir : {0}, level : Levels,
                              rounds : 0..MaxRounds, quality : {0},
                              done : {0}, body : {NoConcFile},
                              touched : {{}}]]
    /\ disk = EmptyDir
    /\ pc = "conc"
    /\ filename = <<"a", ".jpg">>
    /\ level = "extreme"
    /\ target_size = 1
    /\ upload = Content("upload", 0)
    /\ tmp = TRUE
    /\ fs = EmptyDir
    /\ output_path = NoPath
    /\ quality = 0
    /\ current_size = 0
    /\ iters = 0
    /\ compressed_size = 0
    /\ rasterCalls = 0
    /\ pdfTrace = <<>>
    /\ directOut = NoContent
    /\ rasterOut = NoContent
    /\ failed = {}
    /\ minProduced = 0 - 1
    /\ response = NoResponse
    /\ rasterParams = NoParams
    /\ NoText
    /\ NoImage

concFrame == <<variant, filename, level, target_size, upload, tmp, fs, pc,
               output_path, quality, current_size, iters, compressed_size,
               rasterCalls, pdfTrace, directOut, rasterOut, failed,
               minProduced, response, rasterParams, textVars, dimVars>>

\* with tempfile.TemporaryDirectory() as tmp_dir
ConcEnter(r) ==
    /\ reqs[r].pc = "idle"
    /\ \E d \in mkdtemp(ExistingDirs) :
          reqs' = [reqs EXCEPT ![r].pc = "made", ![r].tmp_dir = d]
    /\ UNCHANGED <<disk, concFrame>>

\* file.save(input_path)
ConcSave(r) ==
    /\ reqs[r].pc = "made"
    /\ LET in == ConcInputPath(reqs[r].tmp_dir)
       IN /\ disk' = WriteFile(disk, in, ConcFile(r, 100))
          /\ reqs' = [reqs EXCEPT ![r].pc = "saved",
                                  ![r].touched = @ \cup {in}]
    /\ UNCHANGED concFrame

\* Image.open(file_path) ... img.save(output_path, 'JPEG', quality=quality)
ConcFirstPass(r) ==
    /\ reqs[r].pc = "saved"
    /\ LET in == ConcInputPath(reqs[r].tmp_dir)
           out == ConcOutputPath(reqs[r].tmp_dir)
           q == ConcQuality(variant, reqs[r].level)
       IN /\ disk' = WriteFile(disk, out, ConcFile(ReadFile(disk, in).owner, q))
          /\ reqs' = [reqs EXCEPT ![r].pc = "loop", ![r].quality = q,
                                  ![r].touched = @ \cup {in, out}]
    /\ UNCHANGED concFrame

\* one iteration up to its save of the temp file
ConcIterSave(r) ==
    /\ reqs[r].pc = "loop"
    /\ ConcMore(variant, reqs[r].quality, reqs[r].done, reqs[r].rounds)
    /\ LET out == ConcOutputPath(reqs[r].tmp_dir)
           q == ConcQualityNext(variant, reqs[r].quality)
           temp == ConcTempPath(variant, reqs[r].tmp_dir, q)
       IN /\ disk' = WriteFile(disk, temp, ConcFile(ReadFile(disk, out).owner, q))
          /\ reqs' = [reqs EXCEPT ![r].pc = "temp", ![r].quality = q,
                                  ![r].touched = @ \cup {out, temp}]
    /\ UNCHANGED concFrame

\* the rest of the iteration: shutil.move(temp, output) when it is accepted
ConcIterMove(r) ==
    /\ reqs[r].pc = "temp"
    /\ LET out == ConcOutputPath(reqs[r].tmp_dir)
           temp == ConcTempPath(variant, reqs[r].tmp_dir, reqs[r].quality)
           moved == ConcAccepts(variant, reqs[r].quality, reqs[r].done,
                                reqs[r].rounds) /\ Exists(disk, temp)
       IN /\ disk' = IF moved THEN Move(disk, temp, out) ELSE disk
          /\ reqs' = [reqs EXCEPT ![r].pc = "loop", ![r].done = @ + 1,
                                  ![r].touched = @ \cup {temp, out}]
    /\ UNCHANGED concFrame

\* send_file(output_path)
ConcRespond(r) ==
    /\ reqs[r].pc = "loop"
    /\ ~ConcMore(variant, reqs[r].quality, reqs[r].done, reqs[r].rounds)
    /\ LET out == ConcOutputPath(reqs[r].tmp_dir)
       IN reqs' = [reqs EXCEPT ![r].pc = "sent",
                               ![r].body = ReadFile(disk, out),
                               ![r].touched = @ \cup {out}]
    /\ UNCHANGED <<disk, concFrame>>

\* the with block exits: the directory and all it holds are removed
ConcRelease(r) ==
    /\ reqs[r].pc = "sent"
    /\ disk' = [p \in {x \in DOMAIN disk : x[1] # reqs[r].tmp_dir} |-> disk[p]]
    /\ reqs' = [reqs EXCEPT ![r].pc = "done"]
    /\ UNCHANGED concFrame

ConcNext ==
    \E r \in Requests :
       \/ ConcEnter(r)
       \/ ConcSave(r)
       \/ ConcFirstPass(r)
       \/ ConcIterSave(r)
       \/ ConcIterMove(r)
       \/ ConcRespond(r)
       \/ ConcRelease(r)

SpecConc == ConcInit /\ [][ConcNext]_vars

\* C16: two requests in flight never touch a common path, each touches only
\* paths under its own temp directory, and under every interleaving each
\* returns the artifact it returns when it runs alone.
C16_RequestsIsolated ==
    /\ \A r1 \in Requests : \A r2 \in Requests \ {r1} :
          (Live(r1) /\ Live(r2)) => reqs[r1].touched \cap reqs[r2].touched = {}
    /\ \A r \in Requests :
          Live(r) => \A p \in reqs[r].touched : p[1] = reqs[r].tmp_dir
    /\ \A r \in Requests :
          reqs[r].pc \in {"sent", "done"} => reqs[r].body = AloneArtifact(r)

\* both requests hold their response at once, after loops of different
\* lengths over files of the same names
C16_Witness ==
    /\ reqs[1].pc = "sent" /\ reqs[2].pc = "sent"
    /\ reqs[1].done = 2 /\ reqs[2].done = 1
    /\ reqs[1].body = AloneArtifact(1) /\ reqs[2].body = AloneArtifact(2)
    /\ reqs[1].body.q # reqs[2].body.q

-----------------------------------------------------------------------------
(* Claims on the image strategy's starting parameters *)

-----------------------------------------------------------------------------
(* Claims on the type dispatch *)

\* C22: every file name is dispatched: .pdf in any letter case to the PDF
\* strategy, image extensions to the image strategy, office-document
\* extensions to the document strategy, every other or missing extension to
\* the generic archive strategy; no name is turned away as unsupported.
C22_DispatchTotal ==
    /\ pc = "start" => ENABLED SaveUpload
    /\ pc = "saved" =>
         Strategy = (IF filename[2] \in {".pdf", ".PDF"} THEN "pdf"
                     ELSE IF filename[2] \in {".jpg", ".jpeg", ".png", ".gif",
                                              ".bmp", ".webp"} THEN "image"
                     ELSE IF filename[2] \in {".doc", ".docx", ".xls", ".xlsx",
                                              ".ppt", ".pptx"} THEN "document"
                     ELSE "generic")

-----------------------------------------------------------------------------
(* Claims on the temporary file of an iteration *)

\* C23: whenever an iteration of the convergence loop is about to run, the
\* path its re-encode is written to differs from the current output path,
\* whatever the output's extension.
C23_TempPathDistinct ==
    /\ (pc = "img_loop" /\ variant = "index"
        /\ IdxLoopCond(current_size, target_size, quality)) =>
          ReplaceJpg(output_path, "_q", IdxQualityNext(quality)) # output_path
    /\ (pc = "img_loop" /\ variant = "api" /\ iters < max_iterations) =>
          ReplaceJpg(output_path, "_temp_q", ApiQualityNext(quality)) # output_path

-----------------------------------------------------------------------------
(* Claims on the response *)

\* C24: when a strategy has returned a path that exists, the route sends
\* that file with status 200, whatever the size of the upload, 0 bytes
\* included.
C24_ArtifactSent ==
    [][(pc = "returned" /\ Exists(fs, output_path) /\ pc' = "done") =>
          (response'.status = 200 /\ response'.body = fs[output_path])]_vars

====
